---- MODULE Spec2Model ----
(***************************************************************************)
(* Model of the fact-checking scripts of Scrapper/scrapper_logic:          *)
(*   trusted_sources.py   trust registry, text similarity, verify_veracity,*)
(*                        scrape_source and the interactive run            *)
(*   scraper.py           the article store (result.json)                  *)
(*   article_analyzer.py  the TF-IDF similar-article finder                *)
(*                                                                         *)
(* Texts are sequences of one-character strings over a small alphabet:     *)
(* letters "a" "b" "c", the capital "A", the punctuation mark "!" and the  *)
(* space " ".  Scores are exact rationals <<numerator, denominator>> in    *)
(* lowest terms (the code computes them in double precision).              *)
(***************************************************************************)
EXTENDS Integers, Sequences, FiniteSets, TLC

\* ------------------------------------------------------------ bounds
\* longest article list drawn from ArticlePool
MaxArticles == 2
\* longest article list drawn from ManyPool (enough for the confidence cap)
MaxMany == 6
\* longest text compared in the similarity specification
MaxLen == 3
\* longest article list handled by the analyzer and the store
MaxStored == 2

\* ------------------------------------------------------------ rationals
RECURSIVE GCD(_, _)
GCD(a, b) == IF b = 0 THEN a ELSE GCD(b, a % b)

\* n/d in lowest terms (n >= 0, d > 0)
Frac(n, d) == LET g == GCD(n, d) IN <<n \div g, d \div g>>

FracAdd(x, y) == Frac(x[1] * y[2] + y[1] * x[2], x[2] * y[2])

FracMul(x, y) == Frac(x[1] * y[1], x[2] * y[2])

FracGT(x, y) == x[1] * y[2] > y[1] * x[2]

FracMin(x, y) == IF FracGT(x, y) THEN y ELSE x

Zero == Frac(0, 1)

One == Frac(1, 1)

\* ------------------------------------------------------------ texts
Letters == {"a", "b", "c"}

Space == " "

\* str.lower() on one character
Lower(ch) == IF ch = "A" THEN "a" ELSE ch

\* \w of the regular expression: letters (either case)
IsWordChar(ch) == ch \in Letters \/ ch = "A"

\* str.split(): the maximal runs of non-space characters, in order
RECURSIVE SplitFrom(_, _, _)
SplitFrom(text, i, cur) ==
    IF i > Len(text)
    THEN IF cur = <<>> THEN <<>> ELSE <<cur>>
    ELSE IF text[i] = Space
         THEN IF cur = <<>> THEN SplitFrom(text, i + 1, <<>>)
              ELSE <<cur>> \o SplitFrom(text, i + 1, <<>>)
         ELSE SplitFrom(text, i + 1, Append(cur, text[i]))

Split(text) == SplitFrom(text, 1, <<>>)

\* ' '.join(words)
RECURSIVE Join(_)
Join(words) ==
    IF words = <<>> THEN <<>>
    ELSE IF Len(words) = 1 THEN words[1]
    ELSE words[1] \o <<Space>> \o Join(Tail(words))

\* title + ' ' + description
Concat(title, description) == title \o <<Space>> \o description

\* preprocess_text: lower-case, drop characters that are neither word
\* characters nor whitespace, collapse whitespace
preprocess_text(text) ==
    LET lowered == [i \in 1..Len(text) |-> Lower(text[i])]
        kept == SelectSeq(lowered, LAMBDA ch : IsWordChar(ch) \/ ch = Space)
    IN Join(Split(kept))

\* stopwords.words('romanian'), restricted to the words of the alphabet
stop_words == {<<"a">>, <<"c", "a">>}

\* stemmer.stem: the Romanian Snowball stemmer, on the model's alphabet a
\* suffix stripper that removes a final "a" from a word of three or more
\* letters
stem(token) ==
    IF Len(token) >= 3 /\ token[Len(token)] = "a"
    THEN SubSeq(token, 1, Len(token) - 1)
    ELSE token

\* extract_keywords: tokenize the lower-cased text, drop stop words, stem.
\* The code's list is only ever used as set(...), which is what is returned.
extract_keywords(text) ==
    LET lowered == [i \in 1..Len(text) |-> Lower(text[i])]
        tokens == Split(lowered)
    IN {stem(tokens[i]) : i \in {j \in 1..Len(tokens) : tokens[j] \notin stop_words}}

\* ------------------------------------------------------------ SequenceMatcher
\* length of the common run of a[i..] and b[j..] (0-based, below ahi, bhi)
RECURSIVE RunLen(_, _, _, _, _, _)
RunLen(a, b, i, j, ahi, bhi) ==
    IF i < ahi /\ j < bhi /\ a[i + 1] = b[j + 1]
    THEN 1 + RunLen(a, b, i + 1, j + 1, ahi, bhi)
    ELSE 0

\* SequenceMatcher.find_longest_match(alo, ahi, blo, bhi) without junk: the
\* longest block a[i:i+k] = b[j:j+k]; of the longest, the one that starts
\* earliest in a, and of those the one that starts earliest in b;
\* <<alo, blo, 0>> when nothing matches.
find_longest_match(a, b, alo, ahi, blo, bhi) ==
    LET cand == {<<i, j, RunLen(a, b, i, j, ahi, bhi)>> :
                    i \in alo..(ahi - 1), j \in blo..(bhi - 1)}
        pos == {c \in cand : c[3] > 0}
    IN IF pos = {} THEN <<alo, blo, 0>>
       ELSE CHOOSE c \in pos :
              \A o \in pos :
                 \/ c[3] > o[3]
                 \/ c[3] = o[3] /\ c[1] < o[1]
                 \/ c[3] = o[3] /\ c[1] = o[1] /\ c[2] <= o[2]

\* sum of the sizes of SequenceMatcher.get_matching_blocks(): the longest
\* match, then the same to its left and to its right
RECURSIVE matching_chars(_, _, _, _, _, _)
\* the block <<i, j, k>> found in a[alo:ahi], b[blo:bhi] and what its two
\* sides add
BlockAndSides(a, b, alo, ahi, blo, bhi, i, j, k) ==
    IF k = 0 THEN 0
    ELSE k
         + (IF alo < i /\ blo < j
            THEN matching_chars(a, b, alo, i, blo, j) ELSE 0)
         + (IF i + k < ahi /\ j + k < bhi
            THEN matching_chars(a, b, i + k, ahi, j + k, bhi) ELSE 0)

matching_chars(a, b, alo, ahi, blo, bhi) ==
    LET m == find_longest_match(a, b, alo, ahi, blo, bhi)
    IN BlockAndSides(a, b, alo, ahi, blo, bhi, m[1], m[2], m[3])

\* calculate_similarity: SequenceMatcher(None, text1, text2).ratio(),
\* 2*M/T, and 1.0 when both texts are empty
calculate_similarity(text1, text2) ==
    LET total == Len(text1) + Len(text2)
    IN IF total = 0 THEN One
       ELSE Frac(2 * matching_chars(text1, text2, 0, Len(text1), 0, Len(text2)),
                 total)

\* ------------------------------------------------------------ inputs
Empty == <<>>

\* claims typed at the prompt: empty, a lone stop word, a capitalised word
\* with punctuation, a word the stemmer shortens
ClaimPool == {Empty, <<"a">>, <<"A", "b", "!">>, <<"a", "b", "a">>}

Article(title, description) == [title |-> title, description |-> description]

ArtEmpty == Article(Empty, Empty)

ArtExact == Article(<<"a", "b">>, <<"a", "b">>)

ArtTitle == Article(<<"A", "b">>, Empty)

ArtStem == Article(<<"a", "b", "a">>, <<"c">>)

ArtMiss == Article(<<"c">>, <<"a">>)

ArticlePool == {ArtEmpty, ArtExact, ArtTitle, ArtStem, ArtMiss}

ManyPool == {ArtExact, ArtStem}

SeqsUpTo(S, n) == UNION {[1..k -> S] : k \in 0..n}

\* what the site serves: the cards that carry a link and a title element
Sites == SeqsUpTo(ArticlePool, MaxArticles) \cup SeqsUpTo(ManyPool, MaxMany)

SourceNames == {"veridica", "other"}

\* a source record with its trust level, given in tenths
Source(t) == [trust_level |-> Frac(t, 10)]

\* trusted_sources.json: missing, not JSON, unreadable (a directory, no
\* permission), or a mapping name -> source
ConfigMissing == [kind |-> "missing", sources |-> <<>>]

ConfigMalformed == [kind |-> "malformed", sources |-> <<>>]

ConfigUnreadable == [kind |-> "unreadable", sources |-> <<>>]

ConfigJson(m) == [kind |-> "json", sources |-> m]

MappingsOver(names, tenths) ==
    UNION {[D -> {Source(t) : t \in tenths}] : D \in SUBSET names}

ConfigsOver(names, tenths) ==
    {ConfigMissing, ConfigMalformed, ConfigUnreadable}
        \cup {ConfigJson(m) : m \in MappingsOver(names, tenths)}

\* the registries the interactive run is checked with
Configs == ConfigsOver(SourceNames, {5, 9})

\* the registries and names get_source_trust_level is checked with
RegistryConfigs == ConfigsOver(SourceNames \cup {"hotnews"}, {0, 5, 9, 10})

QueryNames == SourceNames \cup {"hotnews", "nobody"}

\* ------------------------------------------------------------ state
VARIABLES
    config,                 \* contents of trusted_sources.json
    site,                   \* the articles the site serves
    pc,                     \* position of the interactive run
    input_text,             \* the text read from the prompt
    source_name,            \* argument of scrape_source
    sources_data,           \* result of scrape_source
    articles_file,          \* articles.json written by scrape_source
    verification_results,   \* result of verify_veracity
    raised,                 \* exception that left verify_veracity, or "none"
    reported,               \* what the run printed last
    shown,                  \* the matches printed (indices into the articles)
    exit_code,              \* exit status of the process, -1 while running
    query,                  \* argument of get_source_trust_level
    trust_result,           \* what get_source_trust_level returned
    text1,                  \* arguments of calculate_similarity
    text2,
    sim_forward,            \* calculate_similarity(text1, text2)
    sim_backward,           \* calculate_similarity(text2, text1)
    an_input,               \* find_similar_articles: input_text
    an_articles,            \* find_similar_articles: articles
    is_bad,                 \* find_similar_articles: is_bad
    similar,                \* find_similar_articles: results
    lemmatized,             \* the articles (indices) that were preprocessed
    an_raised,              \* exception that left find_similar_articles
    cwd,                    \* working directory of the scraper process
    fs,                     \* result.json in each directory
    loaded,                 \* what load_articles returned
    saved,                  \* the last list save_articles reported as saved
    fs_before               \* fs before the last update_articles

runVars == <<input_text, source_name, sources_data, articles_file,
             verification_results, raised, reported, shown, exit_code>>

trustVars == <<query, trust_result>>

simVars == <<text1, text2, sim_forward, sim_backward>>

anVars == <<an_input, an_articles, is_bad, similar, lemmatized, an_raised>>

scVars == <<cwd, fs, loaded, saved, fs_before>>

vars == <<config, site, pc, runVars, trustVars, simVars, anVars, scVars>>

\* ------------------------------------------------------------ trust registry
\* open(TRUSTED_SOURCES_FILE) and json.load: the mapping or the exception
ReadConfig(cfg) ==
    IF cfg.kind = "json" THEN [exc |-> "none", value |-> cfg.sources]
    ELSE IF cfg.kind = "missing"
    THEN [exc |-> "FileNotFoundError", value |-> <<>>]
    ELSE IF cfg.kind = "malformed"
    THEN [exc |-> "JSONDecodeError", value |-> <<>>]
    ELSE [exc |-> "PermissionError", value |-> <<>>]

\* mutant: the JSONDecodeError clause is missing
Caught_OnlyMissingFile(exc) == exc = "FileNotFoundError"

\* the two except clauses of load_trusted_sources
Caught(exc) == exc \in {"FileNotFoundError", "JSONDecodeError"}

LoadFrom(r) ==
    IF r.exc = "none" \/ Caught(r.exc)
    THEN [raised |-> "none", sources |-> r.value]
    ELSE [raised |-> r.exc, sources |-> <<>>]

\* load_trusted_sources: the mapping, {} when the file is missing or is not
\* JSON; any other exception leaves the function
load_trusted_sources(cfg) == LoadFrom(ReadConfig(cfg))

\* the level returned for an unknown name
UnknownLevel == Zero

LevelIn(loadresult, name) ==
    IF loadresult.raised # "none"
    THEN [raised |-> loadresult.raised, level |-> Zero]
    ELSE IF name \in DOMAIN loadresult.sources
    THEN [raised |-> "none", level |-> loadresult.sources[name].trust_level]
    ELSE [raised |-> "none", level |-> UnknownLevel]

\* get_source_trust_level: the registered level, 0.0 for an unknown name
get_source_trust_level(cfg, name) == LevelIn(load_trusted_sources(cfg), name)

\* ------------------------------------------------------------ verify_veracity
MatchThreshold == Frac(3, 10)

\* match_score = title*0.4 + description*0.4 + keyword_overlap*0.2
match_score(title_similarity, desc_similarity, keyword_overlap) ==
    FracAdd(FracAdd(FracMul(title_similarity, Frac(4, 10)),
                    FracMul(desc_similarity, Frac(4, 10))),
            FracMul(keyword_overlap, Frac(2, 10)))

\* the entry appended to results['matches'] for article i
MatchEntry(i, title_similarity, desc_similarity, keyword_overlap) ==
    [article |-> i,
     match_score |-> match_score(title_similarity, desc_similarity,
                                 keyword_overlap),
     title_similarity |-> title_similarity,
     description_similarity |-> desc_similarity,
     keyword_overlap |-> keyword_overlap]

NoMatch == MatchEntry(0, Zero, Zero, Zero)

\* len(set(input_keywords) & set(article_keywords)) /
\* len(set(input_keywords) | set(article_keywords)): the division fails when
\* the union is empty
KeywordOverlap(input_keywords, article_keywords) ==
    IF input_keywords \cup article_keywords = {}
    THEN [raised |-> "ZeroDivisionError", value |-> Zero]
    ELSE [raised |-> "none",
          value |-> Frac(Cardinality(input_keywords \cap article_keywords),
                         Cardinality(input_keywords \cup article_keywords))]

ScoreWith(processed_input, article, i, overlap) ==
    IF overlap.raised # "none"
    THEN [raised |-> overlap.raised, match |-> NoMatch]
    ELSE [raised |-> "none",
          match |-> MatchEntry(i,
                       calculate_similarity(processed_input, article.title),
                       calculate_similarity(processed_input, article.description),
                       overlap.value)]

\* the loop body's scores for one article (the i-th of the list)
ScoreArticle(processed_input, input_keywords, article, i) ==
    ScoreWith(processed_input, article, i,
              KeywordOverlap(input_keywords,
                  extract_keywords(preprocess_text(
                      Concat(article.title, article.description)))))

\* whether a score is admitted into matches
IsMatch(score) == FracGT(score, MatchThreshold)

\* the for loop from article i on; the first failing article ends the call
RECURSIVE ScanArticles(_, _, _, _, _)
ScanStep(processed_input, input_keywords, articles, i, matches, s) ==
    IF s.raised # "none"
    THEN [raised |-> s.raised, matches |-> <<>>]
    ELSE ScanArticles(processed_input, input_keywords, articles, i + 1,
                      IF IsMatch(s.match.match_score)
                      THEN Append(matches, s.match) ELSE matches)

ScanArticles(processed_input, input_keywords, articles, i, matches) ==
    IF i > Len(articles) THEN [raised |-> "none", matches |-> matches]
    ELSE ScanStep(processed_input, input_keywords, articles, i, matches,
                  ScoreArticle(processed_input, input_keywords, articles[i], i))

\* where list.sort(key=match_score, reverse=True) puts one more element: after
\* every element whose score is not smaller (the sort is stable)
RECURSIVE InsertMatch(_, _)
InsertMatch(m, sorted) ==
    IF sorted = <<>> THEN <<m>>
    ELSE IF FracGT(m.match_score, sorted[1].match_score)
         THEN <<m>> \o sorted
         ELSE <<sorted[1]>> \o InsertMatch(m, Tail(sorted))

RECURSIVE SortMatches(_)
SortMatches(matches) ==
    IF matches = <<>> THEN <<>>
    ELSE InsertMatch(matches[Len(matches)],
                     SortMatches(SubSeq(matches, 1, Len(matches) - 1)))

\* the verdict bucket of a veracity score
Verdict(veracity_score) ==
    IF FracGT(veracity_score, Frac(7, 10)) THEN "true"
    ELSE IF FracGT(veracity_score, Frac(4, 10)) THEN "likely_true"
    ELSE IF FracGT(veracity_score, Frac(2, 10)) THEN "likely_false"
    ELSE "false"

\* confidence = min(1.0, len(matches) * 0.2)
Confidence(n) == FracMin(One, Frac(2 * n, 10))

NoResults ==
    [veracity_score |-> Zero, confidence |-> Zero, matches |-> <<>>,
     verdict |-> "unknown"]

\* the results once the veracity score is known
ResultsWith(sorted, veracity_score) ==
    [veracity_score |-> veracity_score,
     confidence |-> Confidence(Len(sorted)),
     matches |-> sorted,
     verdict |-> Verdict(veracity_score)]

\* mutant: the score of the last match is used instead of the first
Aggregate_LastMatch(sorted, source_trust) ==
    IF source_trust.raised # "none"
    THEN [raised |-> source_trust.raised, results |-> NoResults]
    ELSE [raised |-> "none",
          results |-> ResultsWith(sorted,
                         FracMul(sorted[Len(sorted)].match_score,
                                 source_trust.level))]

\* the block under "if results['matches']": sort, best match times the trust
\* level of 'veridica', verdict, confidence
Aggregate(sorted, source_trust) ==
    IF source_trust.raised # "none"
    THEN [raised |-> source_trust.raised, results |-> NoResults]
    ELSE [raised |-> "none",
          results |-> ResultsWith(sorted, FracMul(sorted[1].match_score,
                                                  source_trust.level))]

\* what verify_veracity returns after the loop
Conclude(scan, cfg) ==
    IF scan.raised # "none"
    THEN [raised |-> scan.raised, results |-> NoResults]
    ELSE IF scan.matches = <<>>
    THEN [raised |-> "none", results |-> NoResults]
    ELSE Aggregate(SortMatches(scan.matches),
                   get_source_trust_level(cfg, "veridica"))

ScanAll(processed_input, articles) ==
    ScanArticles(processed_input, extract_keywords(processed_input), articles,
                 1, <<>>)

\* verify_veracity(input_text, articles), reading the registry in cfg
verify_veracity(text, articles, cfg) ==
    Conclude(ScanAll(preprocess_text(text), articles), cfg)

\* ------------------------------------------------------------ scrape_source
NoData == [error |-> "unset", source |-> "", trust_level |-> Zero, articles |-> <<>>]

ErrorData(e) == [error |-> e, source |-> "", trust_level |-> Zero, articles |-> <<>>]

NoFile == [exists |-> FALSE, data |-> <<>>]

\* scrape_source(name): an unknown name, a failed request and a failed write of
\* articles.json each give {"error": ...}; otherwise the articles are written
\* and returned with the source's trust level.  net and disk are what the
\* requests and the write do.
ScrapeWith(loadresult, name, served, net, disk) ==
    IF loadresult.raised # "none"
    THEN [raised |-> loadresult.raised, data |-> NoData, wrote |-> FALSE]
    ELSE IF name \notin DOMAIN loadresult.sources
    THEN [raised |-> "none", data |-> ErrorData("not_found"), wrote |-> FALSE]
    ELSE IF net = "fail"
    THEN [raised |-> "none", data |-> ErrorData("fetch"), wrote |-> FALSE]
    ELSE IF disk = "fail"
    THEN [raised |-> "none", data |-> ErrorData("processing"), wrote |-> FALSE]
    ELSE [raised |-> "none",
          data |-> [error |-> "", source |-> name,
                    trust_level |-> loadresult.sources[name].trust_level,
                    articles |-> served],
          wrote |-> TRUE]

scrape_source(cfg, name, served, net, disk) ==
    ScrapeWith(load_trusted_sources(cfg), name, served, net, disk)

\* ------------------------------------------------------------ the run
\* input("Enter the news to check: ")
Input ==
    /\ pc = "start"
    /\ \E text \in ClaimPool : input_text' = text
    /\ pc' = "input"
    /\ UNCHANGED <<trustVars, simVars, anVars, scVars>>
    /\ UNCHANGED <<config, site, source_name, sources_data, articles_file,
                   verification_results, raised, reported, shown, exit_code>>

\* sources_data = scrape_source(name); the run itself passes "veridica".  An
\* exception leaving the call ends the process.
ScrapeSource ==
    /\ pc = "input"
    /\ \E name \in SourceNames, net \in {"ok", "fail"}, disk \in {"ok", "fail"} :
          \E r \in {scrape_source(config, name, site, net, disk)} :
             /\ source_name' = name
             /\ sources_data' = r.data
             /\ articles_file' = IF r.wrote
                                 THEN [exists |-> TRUE, data |-> site]
                                 ELSE articles_file
             /\ raised' = r.raised
             /\ pc' = IF r.raised = "none" THEN "scraped" ELSE "done"
             /\ exit_code' = IF r.raised = "none" THEN exit_code ELSE 1
    /\ UNCHANGED <<trustVars, simVars, anVars, scVars>>
    /\ UNCHANGED <<config, site, input_text, verification_results, reported,
                   shown>>

\* if "error" in sources_data: print the error; exit(1)
ExitOnError ==
    /\ pc = "scraped"
    /\ sources_data.error # ""
    /\ reported' = "error"
    /\ exit_code' = 1
    /\ pc' = "done"
    /\ UNCHANGED <<trustVars, simVars, anVars, scVars>>
    /\ UNCHANGED <<config, site, input_text, source_name, sources_data,
                   articles_file, verification_results, raised, shown>>

\* verification_results = verify_veracity(input_text, sources_data['articles']);
\* an exception leaving the call is not caught and ends the process
VerifyVeracity ==
    /\ pc = "scraped"
    /\ sources_data.error = ""
    /\ \E r \in {verify_veracity(input_text, sources_data.articles, config)} :
          /\ raised' = r.raised
          /\ verification_results' = r.results
          /\ pc' = IF r.raised = "none" THEN "verified" ELSE "done"
          /\ exit_code' = IF r.raised = "none" THEN exit_code ELSE 1
    /\ UNCHANGED <<trustVars, simVars, anVars, scVars>>
    /\ UNCHANGED <<config, site, input_text, source_name, sources_data,
                   articles_file, reported, shown>>

\* print the verdict, the confidence and the top three matches
PrintResults ==
    /\ pc = "verified"
    /\ reported' = verification_results.verdict
    /\ shown' = LET m == verification_results.matches
                IN [k \in 1..(IF Len(m) < 3 THEN Len(m) ELSE 3) |-> m[k].article]
    /\ exit_code' = 0
    /\ pc' = "done"
    /\ UNCHANGED <<trustVars, simVars, anVars, scVars>>
    /\ UNCHANGED <<config, site, input_text, source_name, sources_data,
                   articles_file, verification_results, raised>>

\* the state of a script that is not running
RunIdle ==
    /\ input_text = Empty
    /\ source_name = ""
    /\ sources_data = NoData
    /\ articles_file = NoFile
    /\ verification_results = NoResults
    /\ raised = "none"
    /\ reported = "none"
    /\ shown = <<>>
    /\ exit_code = -1

TrustIdle ==
    /\ query = ""
    /\ trust_result = Zero

SimIdle ==
    /\ text1 = Empty
    /\ text2 = Empty
    /\ sim_forward = Zero
    /\ sim_backward = Zero

AnalyzerIdle ==
    /\ an_input = Empty
    /\ an_articles = <<>>
    /\ is_bad = FALSE
    /\ similar = <<>>
    /\ lemmatized = {}
    /\ an_raised = "none"

ScraperIdle ==
    /\ cwd = ""
    /\ fs = <<>>
    /\ loaded = <<>>
    /\ saved = [valid |-> FALSE, articles |-> <<>>, noop |-> FALSE]
    /\ fs_before = <<>>

\* trusted_sources.py run as a script
Init ==
    /\ config \in Configs
    /\ site \in Sites
    /\ pc = "start"
    /\ RunIdle
    /\ TrustIdle
    /\ SimIdle
    /\ AnalyzerIdle
    /\ ScraperIdle

Next ==
    \/ Input
    \/ ScrapeSource
    \/ ExitOnError
    \/ VerifyVeracity
    \/ PrintResults

Spec == Init /\ [][Next]_vars

\* ------------------------------------------------------------ the registry
\* a caller asks get_source_trust_level(name)
GetSourceTrustLevel ==
    /\ pc = "registry"
    /\ \E name \in QueryNames :
          \E r \in {get_source_trust_level(config, name)} :
             /\ query' = name
             /\ trust_result' = r.level
             /\ raised' = r.raised
    /\ pc' = "answered"
    /\ UNCHANGED <<simVars, anVars, scVars>>
    /\ UNCHANGED <<config, site, input_text, source_name, sources_data,
                   articles_file, verification_results, reported, shown,
                   exit_code>>

InitTrust ==
    /\ config \in RegistryConfigs
    /\ site = <<>>
    /\ pc = "registry"
    /\ RunIdle
    /\ TrustIdle
    /\ SimIdle
    /\ AnalyzerIdle
    /\ ScraperIdle

NextTrust == GetSourceTrustLevel

SpecTrust == InitTrust /\ [][NextTrust]_vars

\* ------------------------------------------------------------ similarity
\* every text of letters up to MaxLen
Texts == SeqsUpTo(Letters, MaxLen)

\* calculate_similarity(text1, text2)
CompareForward ==
    /\ pc = "similarity"
    /\ sim_forward' = calculate_similarity(text1, text2)
    /\ pc' = "forward"
    /\ UNCHANGED <<config, site, runVars, trustVars, anVars, scVars>>
    /\ UNCHANGED <<text1, text2, sim_backward>>

\* calculate_similarity(text2, text1)
CompareBackward ==
    /\ pc = "forward"
    /\ sim_backward' = calculate_similarity(text2, text1)
    /\ pc' = "compared"
    /\ UNCHANGED <<config, site, runVars, trustVars, anVars, scVars>>
    /\ UNCHANGED <<text1, text2, sim_forward>>

InitSim ==
    /\ config = ConfigMissing
    /\ site = <<>>
    /\ pc = "similarity"
    /\ RunIdle
    /\ TrustIdle
    /\ text1 \in Texts
    /\ text2 \in Texts
    /\ sim_forward = Zero
    /\ sim_backward = Zero
    /\ AnalyzerIdle
    /\ ScraperIdle

NextSim ==
    \/ CompareForward
    \/ CompareBackward

SpecSim == InitSim /\ [][NextSim]_vars

\* ------------------------------------------------------------ article_analyzer
\* token.lemma_: on the model's alphabet the dictionary form drops a final "a"
\* of a word of three or more letters
lemma(token) ==
    IF Len(token) >= 3 /\ token[Len(token)] = "a"
    THEN SubSeq(token, 1, Len(token) - 1)
    ELSE token

\* the tokens of nlp(text.lower()) that are words: punctuation marks are
\* tokens of their own and separate words
WordTokens(text) ==
    Split([i \in 1..Len(text) |->
              IF IsWordChar(text[i]) THEN Lower(text[i]) ELSE Space])

\* ArticleAnalyzer.preprocess_text: the lemmas of the tokens that are neither
\* stop words nor punctuation, joined by spaces
an_preprocess_text(text) ==
    LET tokens == WordTokens(text)
        kept == SelectSeq(tokens, LAMBDA w : w \notin stop_words)
    IN Join([i \in 1..Len(kept) |-> lemma(kept[i])])

\* TfidfVectorizer's tokens: the words of two or more word characters
\* (token_pattern \b\w\w+\b)
TfidfTokens(text) == SelectSeq(Split(text), LAMBDA w : Len(w) >= 2)

\* term frequency of term in a token list
Count(tokens, term) == Cardinality({i \in 1..Len(tokens) : tokens[i] = term})

\* the square of the smoothed idf over the two documents, in hundredths:
\* (ln(3/3) + 1)^2 = 1 for a term of both, (ln(3/2) + 1)^2 = 1.98 for a term
\* of one
IdfSq(in1, in2) == IF in1 /\ in2 THEN 100 ELSE 198

RECURSIVE SumOver(_, _, _, _)
\* sum over the terms of S of tf(term)^2 * idf(term)^2, in hundredths
SumOver(S, tokens, toks1, toks2) ==
    IF S = {} THEN 0
    ELSE LET term == CHOOSE x \in S : TRUE
         IN Count(tokens, term) * Count(tokens, term)
              * IdfSq(Count(toks1, term) > 0, Count(toks2, term) > 0)
            + SumOver(S \ {term}, tokens, toks1, toks2)

RECURSIVE DotOver(_, _, _)
\* sum over the terms of S of tf1(term) * tf2(term) (a shared term has idf 1)
DotOver(S, toks1, toks2) ==
    IF S = {} THEN 0
    ELSE LET term == CHOOSE x \in S : TRUE
         IN Count(toks1, term) * Count(toks2, term)
            + DotOver(S \ {term}, toks1, toks2)

Range(seq) == {seq[i] : i \in 1..Len(seq)}

\* the square of the cosine of the two TF-IDF rows; 0 when a row is all zero
CosineSq(toks1, toks2, vocabulary) ==
    IF Range(toks1) = {} \/ Range(toks2) = {} THEN Zero
    ELSE Frac(10000 * DotOver(vocabulary, toks1, toks2)
                    * DotOver(vocabulary, toks1, toks2),
              SumOver(vocabulary, toks1, toks1, toks2)
                    * SumOver(vocabulary, toks2, toks1, toks2))

SimilarityOf(toks1, toks2) ==
    IF Range(toks1) \cup Range(toks2) = {}
    THEN [raised |-> "ValueError", similarity_sq |-> Zero]
    ELSE [raised |-> "none",
          similarity_sq |-> CosineSq(toks1, toks2, Range(toks1) \cup Range(toks2))]

\* ArticleAnalyzer.calculate_similarity: fit_transform on the two texts (an
\* empty vocabulary is a ValueError), then the cosine of the two rows, kept
\* here as its square
an_calculate_similarity(t1, t2) == SimilarityOf(TfidfTokens(t1), TfidfTokens(t2))

\* threshold=0.1, squared
ThresholdSq == Frac(1, 100)

\* f"{article.get('title', '')} {article.get('description', '')}"
ArticleText(article) == Concat(article.title, article.description)

RECURSIVE FindFrom(_, _, _, _, _, _)
FindStep(preprocessed_input, articles, bad, i, results, seen, sim) ==
    IF sim.raised # "none"
    THEN [raised |-> sim.raised, results |-> <<>>, lemmatized |-> seen \cup {i}]
    ELSE FindFrom(preprocessed_input, articles, bad, i + 1,
                  IF FracGT(sim.similarity_sq, ThresholdSq)
                  THEN Append(results,
                              [article |-> i,
                               title |-> articles[i].title,
                               description |-> articles[i].description,
                               similarity_sq |-> sim.similarity_sq,
                               is_bad |-> bad])
                  ELSE results,
                  seen \cup {i})

\* the for loop of find_similar_articles from article i on
FindFrom(preprocessed_input, articles, bad, i, results, seen) ==
    IF i > Len(articles)
    THEN [raised |-> "none", results |-> results, lemmatized |-> seen]
    ELSE IF ArticleText(articles[i]) = <<>>
    THEN FindFrom(preprocessed_input, articles, bad, i + 1, results, seen)
    ELSE FindStep(preprocessed_input, articles, bad, i, results, seen,
                  an_calculate_similarity(preprocessed_input,
                      an_preprocess_text(ArticleText(articles[i]))))

\* ArticleAnalyzer.find_similar_articles(input_text, articles, is_bad)
find_similar_articles(text, articles, bad) ==
    FindFrom(an_preprocess_text(text), articles, bad, 1, <<>>, {})

FindSimilarArticles ==
    /\ pc = "analyzer"
    /\ \E r \in {find_similar_articles(an_input, an_articles, is_bad)} :
          /\ similar' = r.results
          /\ lemmatized' = r.lemmatized
          /\ an_raised' = r.raised
    /\ pc' = "found"
    /\ UNCHANGED <<config, site, runVars, trustVars, simVars, scVars>>
    /\ UNCHANGED <<an_input, an_articles, is_bad>>

InitAnalyzer ==
    /\ config = ConfigMissing
    /\ site = <<>>
    /\ pc = "analyzer"
    /\ RunIdle
    /\ TrustIdle
    /\ SimIdle
    /\ an_input \in ClaimPool
    /\ an_articles \in SeqsUpTo(ArticlePool, MaxStored)
    /\ is_bad \in BOOLEAN
    /\ similar = <<>>
    /\ lemmatized = {}
    /\ an_raised = "none"
    /\ ScraperIdle

NextAnalyzer == FindSimilarArticles

SpecAnalyzer == InitAnalyzer /\ [][NextAnalyzer]_vars

\* ------------------------------------------------------------ scraper.py
\* the directories of interest: that of scraper.py (CURRENT_DIR) and another
\* one the process may be started in
Dirs == {"module", "elsewhere"}

\* article records as scraped (title and link stand for all the string fields)
StoredArticle(title, link) == [title |-> title, link |-> link]

StoredPool == {StoredArticle("t1", "l1"), StoredArticle("t2", "l2")}

StoredLists == SeqsUpTo(StoredPool, MaxStored)

NoResultFile == [exists |-> FALSE, text |-> <<>>]

ResultFile(text) == [exists |-> TRUE, text |-> text]

\* json.dump(articles, f): the text, as the sequence of its tokens
RECURSIVE json_dump_items(_)
json_dump_items(articles) ==
    IF articles = <<>> THEN <<>>
    ELSE <<"{", articles[1].title, articles[1].link, "}">>
         \o json_dump_items(Tail(articles))

json_dump(articles) == <<"[">> \o json_dump_items(articles) \o <<"]">>

\* whether a token sequence is the text of a list of article objects
WellFormed(text) ==
    /\ Len(text) >= 2
    /\ text[1] = "["
    /\ text[Len(text)] = "]"
    /\ (Len(text) - 2) % 4 = 0
    /\ \A g \in 0..((Len(text) - 2) \div 4 - 1) :
          text[4 * g + 2] = "{" /\ text[4 * g + 5] = "}"

\* json.load(f): the list, or JSONDecodeError
json_load(text) ==
    IF WellFormed(text)
    THEN [exc |-> "none",
          value |-> [g \in 1..((Len(text) - 2) \div 4) |->
                        StoredArticle(text[4 * g - 1], text[4 * g])]]
    ELSE [exc |-> "JSONDecodeError", value |-> <<>>]

\* the directory whose result.json save_articles opens: the path is the
\* relative "result.json", so the working directory
SaveDir(dir) == dir

\* the directory whose result.json load_articles opens: RESULTS_FILE, beside
\* scraper.py
LoadDir == "module"

\* save_articles(articles) in working directory dir; outcome is what the
\* file system does: "ok", "denied" (open fails), "full" (the file is
\* truncated by open and the write fails).  ok: the success message was printed.
save_articles(files, dir, articles, outcome) ==
    IF outcome = "ok"
    THEN [fs |-> [files EXCEPT ![SaveDir(dir)] = ResultFile(json_dump(articles))],
          ok |-> TRUE]
    ELSE IF outcome = "full"
    THEN [fs |-> [files EXCEPT ![SaveDir(dir)] = ResultFile(<<>>)], ok |-> FALSE]
    ELSE [fs |-> files, ok |-> FALSE]

LoadedFrom(file) ==
    IF ~file.exists THEN <<>>
    ELSE IF json_load(file.text).exc # "none" THEN <<>>
    ELSE json_load(file.text).value

\* load_articles(): the list in RESULTS_FILE, [] when the file is missing or
\* is not JSON
load_articles(files) == LoadedFrom(files[LoadDir])

NothingSaved == [valid |-> FALSE, articles |-> <<>>, noop |-> FALSE]

\* a caller saves a list
SaveArticles ==
    /\ pc \in {"store", "loaded"}
    /\ \E articles \in StoredLists, outcome \in {"ok", "denied", "full"} :
          \E r \in {save_articles(fs, cwd, articles, outcome)} :
             /\ fs' = r.fs
             /\ saved' = [valid |-> r.ok, articles |-> articles, noop |-> FALSE]
    /\ pc' = "store"
    /\ UNCHANGED <<config, site, runVars, trustVars, simVars, anVars>>
    /\ UNCHANGED <<cwd, loaded, fs_before>>

\* update_articles(): scrape_veridica() gives [] when the request or the
\* parsing fails; a non-empty list is saved, anything else only reported
UpdateArticles ==
    /\ pc \in {"store", "loaded"}
    /\ \E new_articles \in StoredLists, outcome \in {"ok", "denied", "full"} :
          \E r \in {save_articles(fs, cwd, new_articles, outcome)} :
             /\ fs' = IF new_articles # <<>> THEN r.fs ELSE fs
             /\ saved' = IF new_articles # <<>>
                         THEN [valid |-> r.ok, articles |-> new_articles,
                               noop |-> FALSE]
                         ELSE [valid |-> FALSE, articles |-> <<>>, noop |-> TRUE]
    /\ fs_before' = fs
    /\ pc' = "store"
    /\ UNCHANGED <<config, site, runVars, trustVars, simVars, anVars>>
    /\ UNCHANGED <<cwd, loaded>>

\* a caller loads the stored list
LoadArticles ==
    /\ pc = "store"
    /\ loaded' = load_articles(fs)
    /\ pc' = "loaded"
    /\ UNCHANGED <<config, site, runVars, trustVars, simVars, anVars>>
    /\ UNCHANGED <<cwd, fs, saved, fs_before>>

InitScraper ==
    /\ config = ConfigMissing
    /\ site = <<>>
    /\ pc = "store"
    /\ RunIdle
    /\ TrustIdle
    /\ SimIdle
    /\ AnalyzerIdle
    /\ cwd \in Dirs
    /\ fs \in [Dirs -> {NoResultFile} \cup {ResultFile(json_dump(l)) : l \in StoredLists}]
    /\ loaded = <<>>
    /\ saved = NothingSaved
    /\ fs_before = fs

NextScraper ==
    \/ SaveArticles
    \/ UpdateArticles
    \/ LoadArticles

SpecScraper == InitScraper /\ [][NextScraper]_vars

\* ============================================================ claims
\* ------------------------------------------------------------ verify_veracity
\* verify_veracity has been called in this run
Called == pc = "verified" \/ (pc = "done" /\ sources_data.error = "")

\* ... and has returned
Returned == Called /\ raised = "none"

Articles == sources_data.articles

Matches == verification_results.matches

ClaimText == preprocess_text(input_text)

ClaimKeywords == extract_keywords(ClaimText)

KeywordsOf(a) ==
    extract_keywords(preprocess_text(Concat(a.title, a.description)))

EmptyUnion(a) == ClaimKeywords \cup KeywordsOf(a) = {}

SameNumber(x, y) == x[1] * y[2] = y[1] * x[2]

\* keyword_overlap as the specification defines it: 0 for an empty union
GuardedOverlap(a) ==
    IF EmptyUnion(a) THEN <<0, 1>>
    ELSE <<Cardinality(ClaimKeywords \cap KeywordsOf(a)),
           Cardinality(ClaimKeywords \cup KeywordsOf(a))>>

\* 0.4*title_similarity + 0.4*description_similarity + 0.2*keyword_overlap,
\* as numerator and denominator
Weighted(t, d, k) ==
    <<4 * t[1] * d[2] * k[2] + 4 * d[1] * t[2] * k[2] + 2 * k[1] * t[2] * d[2],
      10 * t[2] * d[2] * k[2]>>

SpecScore(a) ==
    Weighted(calculate_similarity(ClaimText, a.title),
             calculate_similarity(ClaimText, a.description),
             GuardedOverlap(a))

\* match_score > 0.3
Exceeds(score) == 10 * score[1] > 3 * score[2]

Admitted == {i \in 1..Len(Articles) : Exceeds(SpecScore(Articles[i]))}

\* matches is the admitted articles, each once, with its score, best first,
\* equal scores in input order
FilteredSorted ==
    /\ Len(Matches) = Cardinality(Admitted)
    /\ {Matches[k].article : k \in 1..Len(Matches)} = Admitted
    /\ \A k \in 1..Len(Matches) :
          SameNumber(Matches[k].match_score,
                     SpecScore(Articles[Matches[k].article]))
    /\ \A k, l \in 1..Len(Matches) :
          k < l =>
             \/ FracGT(Matches[k].match_score, Matches[l].match_score)
             \/ /\ Matches[k].match_score = Matches[l].match_score
                /\ Matches[k].article < Matches[l].article

\* C1: whenever some article's keyword union with the claim is empty, the call
\* raises nothing and every such article that is matched has keyword_overlap 0.
C1_EmptyUnionYieldsZero ==
    (Called /\ \E i \in 1..Len(Articles) : EmptyUnion(Articles[i]))
        => /\ raised = "none"
           /\ \A k \in 1..Len(Matches) :
                 EmptyUnion(Articles[Matches[k].article])
                     => Matches[k].keyword_overlap = Zero

\* C2: with an empty article list or an empty claim the call raises nothing and
\* returns no matches, scores 0.0 and the verdict "unknown".
C2_EmptyInputsGiveEmptyResult ==
    (Called /\ (input_text = Empty \/ Articles = <<>>))
        => /\ raised = "none"
           /\ verification_results = NoResults

\* C3: when no article's match_score exceeds 0.3 the call returns no matches,
\* scores 0.0 and the verdict "unknown".
C3_NoMatchGivesUnknown ==
    (Called /\ Admitted = {})
        => /\ raised = "none"
           /\ verification_results = NoResults

\* C4: for every claim and article list the call returns as matches exactly
\* the articles whose match_score exceeds 0.3, each once, by descending
\* match_score, equal scores in input order.
C4_MatchesFilteredSorted ==
    Called => (raised = "none" /\ FilteredSorted)

\* Every call that returns does return the filtered, stably sorted list: C4
\* fails only on the calls that raise.
ReturnedMatchesFilteredSorted ==
    Returned => FilteredSorted

TwoTiedAndOneBetter ==
    /\ Returned
    /\ Len(Matches) >= 2
    /\ \E k \in 1..Len(Matches) - 1 :
          /\ Matches[k].match_score = Matches[k + 1].match_score
          /\ Matches[k].article < Matches[k + 1].article
    /\ Len(Articles) > Len(Matches)

\* the level registered in trusted_sources.json under name, 0 when there is none
RegisteredLevel(name) ==
    IF config.kind = "json" /\ name \in DOMAIN config.sources
    THEN config.sources[name].trust_level
    ELSE <<0, 1>>

Bucket(v) ==
    IF 10 * v[1] > 7 * v[2] THEN "true"
    ELSE IF 10 * v[1] > 4 * v[2] THEN "likely_true"
    ELSE IF 10 * v[1] > 2 * v[2] THEN "likely_false"
    ELSE "false"

\* veracity_score = matches[0].match_score * level, confidence =
\* min(1.0, 0.2 * len(matches)), verdict = the bucket of veracity_score
AggregatedWith(level) ==
    /\ SameNumber(verification_results.veracity_score,
                  <<Matches[1].match_score[1] * level[1],
                    Matches[1].match_score[2] * level[2]>>)
    /\ SameNumber(verification_results.confidence,
                  <<IF 2 * Len(Matches) < 10 THEN 2 * Len(Matches) ELSE 10, 10>>)
    /\ verification_results.verdict = Bucket(verification_results.veracity_score)
    /\ verification_results.verdict # "unknown"

C7_NoFatalError ==
    (pc = "done" /\ source_name = "veridica")
        => (exit_code = 0 /\ raised = "none")

\* ------------------------------------------------------------ the registry
\* C6: get_source_trust_level never fails on a missing file, malformed JSON or
\* a well-formed mapping, and returns the level registered under the name, 0.0
\* when the name is not registered (a missing or malformed file registers
\* nothing).
C6_TrustLevelOrZero ==
    (pc = "answered" /\ config.kind \in {"missing", "malformed", "json"})
        => /\ raised = "none"
           /\ trust_result =
                 IF config.kind = "json" /\ query \in DOMAIN config.sources
                 THEN config.sources[query].trust_level
                 ELSE <<0, 1>>

C6_Witness ==
    /\ pc = "answered"
    /\ config.kind = "malformed"
    /\ query = "veridica"
    /\ trust_result = Zero
    /\ raised = "none"

\* ------------------------------------------------------------ similarity
\* C8: calculate_similarity is symmetric: calculate_similarity(a, b) =
\* calculate_similarity(b, a) for all texts a and b.
C8_SimilaritySymmetric ==
    pc = "compared" => sim_forward = sim_backward

\* ------------------------------------------------------------ article_analyzer
BothEmpty(article) == article.title = Empty /\ article.description = Empty

\* the input and the article share no term the vectorizer can use
NoVocabulary(article) ==
    an_calculate_similarity(an_preprocess_text(an_input),
                            an_preprocess_text(ArticleText(article))).raised
        # "none"

\* C9: find_similar_articles skips every article whose title and description
\* are both empty: it is never lemmatized or scored, never in the results, and
\* never makes the call fail; every other article is in the results, with
\* is_bad and its similarity, exactly when its similarity exceeds the threshold.
C9_SkipsEmptyArticles ==
    pc = "found" =>
       /\ \A i \in 1..Len(an_articles) :
             BothEmpty(an_articles[i]) =>
                /\ i \notin lemmatized
                /\ \A k \in 1..Len(similar) : similar[k].article # i
       /\ an_raised # "none" =>
             \E i \in 1..Len(an_articles) :
                ~BothEmpty(an_articles[i]) /\ NoVocabulary(an_articles[i])
       /\ an_raised = "none" =>
             \A i \in 1..Len(an_articles) :
                ~BothEmpty(an_articles[i]) =>
                   ((\E k \in 1..Len(similar) :
                        /\ similar[k].article = i
                        /\ similar[k].is_bad = is_bad)
                    <=> FracGT(an_calculate_similarity(
                                   an_preprocess_text(an_input),
                                   an_preprocess_text(
                                       ArticleText(an_articles[i]))).similarity_sq,
                               ThresholdSq))

\* ------------------------------------------------------------ scraper.py
\* C10: once save_articles (or an update_articles that scraped a non-empty
\* list) has stored L without reporting an error, load_articles returns L, in
\* every working directory; and an update_articles that scraped nothing leaves
\* the stored articles as they were.
C10_StoreRoundTrip ==
    /\ (pc = "loaded" /\ saved.valid) => loaded = saved.articles
    /\ saved.noop => fs = fs_before

\* In the directory of scraper.py the round trip does hold.
RoundTripInModuleDir ==
    (pc = "loaded" /\ saved.valid /\ cwd = LoadDir) => loaded = saved.articles

====
